---------------------------- MODULE Spec2Model ----------------------------
(***************************************************************************)
(* Model of mytar.c: the scan loop of main() over an archive of 512-byte   *)
(* records, with header validation, name filtering, payload transfer and   *)
(* the post-scan report of names that were not found.                      *)
(*                                                                         *)
(* A record is a sequence of 512 bytes (natural numbers 0..255).  The      *)
(* archive is read one fread at a time; what each fread returns is an      *)
(* input of the action that performs it, and the reads made so far are     *)
(* kept in `consumed`.                                                     *)
(***************************************************************************)
EXTENDS Integers, Sequences, FiniteSets, TLC

(***************************************************************************)
(* Bounds of the model.                                                    *)
(***************************************************************************)
\* Largest number of full records an archive holds.
MaxBlocks == 4
\* Width in bits of size_t / unsigned long long in the model.
SizeBits == 16

(***************************************************************************)
(* Program constants.                                                      *)
(***************************************************************************)
RECORD_SIZE == 512
\* Byte offsets and widths of the fields of header_t that the program reads.
NAME_OFFSET == 0
NAME_SIZE == 100
SIZE_OFFSET == 124
TYPEFLAG_OFFSET == 156
MAGIC_OFFSET == 257
MAGIC_SIZE == 6
TMAGIC == <<117, 115, 116, 97, 114>>
TMAGICS == <<117, 115, 116, 97, 114, 32>>
REGTYPE == 48
AREGTYPE == 0

SIZE_MAX == 2 ^ SizeBits - 1

Min(a, b) == IF a < b THEN a ELSE b

(***************************************************************************)
(* C strings and the library functions the program calls on header bytes.  *)
(***************************************************************************)
\* Index (1-based, in the record) of the first NUL byte after byte offset
\* `off`; RECORD_SIZE + 1 when the record holds none.
NulPos(b, off) ==
    CHOOSE k \in (off + 1)..(RECORD_SIZE + 1) :
        /\ (k = RECORD_SIZE + 1 \/ b[k] = 0)
        /\ \A j \in (off + 1)..(k - 1) : b[j] # 0

\* The C string that starts at byte offset `off` of record b.
CStr(b, off) == SubSeq(b, off + 1, NulPos(b, off) - 1)

\* The byte at position i of the string literal `lit`, its terminator included.
LitAt(lit, i) == IF i <= Len(lit) THEN lit[i] ELSE 0

\* strncmp(b + off, lit, n) == 0
StrncmpEq(b, off, lit, n) ==
    \A i \in 1..n :
        (\A j \in 1..(i - 1) : b[off + j] # 0) => b[off + i] = LitAt(lit, i)

\* strcmp(arg, b + off) == 0, for a string argument without NUL bytes.
StrcmpEq(arg, b, off) == arg = CStr(b, off)

\* What printf("%.*s", n, b + off) prints.
PrintfPrec(b, off, n) == SubSeq(b, off + 1, Min(NulPos(b, off) - 1, off + n))

IsSpace(c) == c \in {32, 9, 10, 11, 12, 13}
IsOctal(c) == c \in 48..55

RECURSIVE SkipSpace(_, _)
SkipSpace(b, p) ==
    IF p <= RECORD_SIZE /\ IsSpace(b[p]) THEN SkipSpace(b, p + 1) ELSE p

\* Accumulates octal digits from position p on; <<value, overflowed>>.
RECURSIVE OctalDigits(_, _, _, _)
OctalDigits(b, p, acc, ovf) ==
    IF p > RECORD_SIZE \/ ~IsOctal(b[p])
    THEN <<acc, ovf>>
    ELSE LET d == b[p] - 48
             over == ovf \/ acc > (SIZE_MAX - d) \div 8
         IN  OctalDigits(b, p + 1, IF over THEN SIZE_MAX ELSE acc * 8 + d, over)

\* strtoull(b + off, NULL, 8): leading white space, an optional sign, then
\* octal digits up to the first other byte; saturates on overflow.
Strtoull8(b, off) ==
    LET p0 == SkipSpace(b, off + 1)
        neg == p0 <= RECORD_SIZE /\ b[p0] = 45
        p1 == IF p0 <= RECORD_SIZE /\ b[p0] \in {43, 45} THEN p0 + 1 ELSE p0
        r == OctalDigits(b, p1, 0, FALSE)
    IN  IF r[2] THEN SIZE_MAX
        ELSE IF neg THEN (SIZE_MAX + 1 - r[1]) % (SIZE_MAX + 1)
        ELSE r[1]

(***************************************************************************)
(* Output lines.                                                           *)
(***************************************************************************)
Line(k, s, n) == [k |-> k, s |-> s, n |-> n]
Listing(s) == Line("listing", s, 0)
LoneZeroBlock(n) == Line("lone_zero_block", <<>>, n)
UnexpectedEOF == Line("unexpected_eof", <<>>, 0)
NotFound(s) == Line("not_found", s, 0)
ExitingWithFailure == Line("exiting_with_failure", <<>>, 0)
NotATarArchive == Line("not_a_tar_archive", <<>>, 0)
UnsupportedType(n) == Line("unsupported_type", <<>>, n)
CouldntCreate(s) == Line("could_not_create", s, 0)

(***************************************************************************)
(* Functions of mytar.c on a header record.                                *)
(***************************************************************************)
header_is_magic_valid(h) ==
    \/ StrncmpEq(h, MAGIC_OFFSET, TMAGIC, MAGIC_SIZE)
    \/ StrncmpEq(h, MAGIC_OFFSET, TMAGICS, MAGIC_SIZE)

header_is_regular_file(h) ==
    \/ h[TYPEFLAG_OFFSET + 1] = REGTYPE
    \/ h[TYPEFLAG_OFFSET + 1] = AREGTYPE

\* Mutant of header_check_valid: the magic is not checked.
header_check_valid_NoMagic(h) ==
    IF ~header_is_regular_file(h)
    THEN [ret |-> 2, err |-> <<UnsupportedType(h[TYPEFLAG_OFFSET + 1])>>]
    ELSE [ret |-> 0, err |-> <<>>]

\* Mutant of header_check_valid: the typeflag is checked before the magic.
header_check_valid_TypeFirst(h) ==
    IF ~header_is_regular_file(h)
    THEN [ret |-> 2, err |-> <<UnsupportedType(h[TYPEFLAG_OFFSET + 1])>>]
    ELSE IF ~header_is_magic_valid(h)
    THEN [ret |-> 2, err |-> <<NotATarArchive>>]
    ELSE [ret |-> 0, err |-> <<>>]

\* [ret, err]: the return code, 0 for a valid header, and the lines printed
\* to stderr.
header_check_valid(h) ==
    IF ~header_is_magic_valid(h)
    THEN [ret |-> 2, err |-> <<NotATarArchive>>]
    ELSE IF ~header_is_regular_file(h)
    THEN [ret |-> 2, err |-> <<UnsupportedType(h[TYPEFLAG_OFFSET + 1])>>]
    ELSE [ret |-> 0, err |-> <<>>]

header_is_null(h) == \A i \in 1..RECORD_SIZE : h[i] = 0

header_get_size(h) == Strtoull8(h, SIZE_OFFSET)

\* Mutant of size_to_record_count: the count is rounded down.
size_to_record_count_Floor(x) == x \div RECORD_SIZE

size_to_record_count(x) == ((x + RECORD_SIZE - 1) % (SIZE_MAX + 1)) \div RECORD_SIZE

(***************************************************************************)
(* Input domains: the records an archive may hold, the lengths of a short  *)
(* read, and the command lines.                                            *)
(***************************************************************************)
Zeros(n) == [k \in 1..n |-> 0]
Pad(s, n) == s \o Zeros(n - Len(s))

\* A header_t laid out field by field (name, mode, uid and gid, size, mtime,
\* chksum, typeflag, linkname, magic, and the remaining fields).
MkHeader(name, mode, sizetext, mtime, typeflag, magic) ==
    Pad(name, 100) \o Pad(mode, 8) \o Zeros(16) \o Pad(sizetext, 12)
        \o Pad(mtime, 12) \o Zeros(8) \o <<typeflag>> \o Zeros(100)
        \o Pad(magic, 6) \o Zeros(249)

NameA == <<97>>
NameB == <<98>>
Mode644 == <<48, 48, 48, 48, 54, 52, 52>>
Mtime == <<49, 52, 55, 48, 48, 48, 48, 48, 48, 48, 48>>
\* "00000000000", "00000001022" (530) and "00000000022" (18).
Octal0 == <<48, 48, 48, 48, 48, 48, 48, 48, 48, 48, 48>>
Octal530 == <<48, 48, 48, 48, 48, 48, 48, 49, 48, 50, 50>>
Octal18 == <<48, 48, 48, 48, 48, 48, 48, 48, 48, 50, 50>>

Blocks ==
    << Zeros(512),
       MkHeader(NameA, Mode644, Octal0, Mtime, REGTYPE, TMAGIC),
       MkHeader(NameA, Mode644, Octal530, Mtime, REGTYPE, TMAGICS),
       MkHeader(NameB, Mode644, Octal18, Mtime, AREGTYPE, TMAGIC),
       MkHeader(NameA, Mode644, Octal0, Mtime, REGTYPE, <<117, 115, 116, 97, 120>>),
       MkHeader(NameB, Mode644, Octal0, Mtime, 53, TMAGIC),
       [k \in 1..512 |-> 65] >>

BlockIds == 1..Len(Blocks)

\* Lengths of a short, non-empty read.
PartialLens == {5, 100}

FreeArgumentLists ==
    {<<>>, <<NameA>>, <<NameA, NameB>>, <<NameB, NameA>>, <<NameA, NameA>>}

(***************************************************************************)
(* The filter and the final report.                                        *)
(***************************************************************************)
options_has_free_arguments(o) == Len(o.free_arguments) # 0

\* Mutant of options_find_free_argument: an argument already found matches
\* again.
options_find_free_argument_IgnoreFound(o, h, found) ==
    LET hits == {k \in 1..Len(o.free_arguments) :
                    StrcmpEq(o.free_arguments[k], h, NAME_OFFSET)}
    IN  IF hits = {} THEN 0
        ELSE CHOOSE k \in hits : \A m \in hits : k <= m

\* The index of the free argument that the call marks, 0 when it returns
\* false.
options_find_free_argument(o, h, found) ==
    LET hits == {k \in 1..Len(o.free_arguments) :
                    ~found[k] /\ StrcmpEq(o.free_arguments[k], h, NAME_OFFSET)}
    IN  IF hits = {} THEN 0
        ELSE CHOOSE k \in hits : \A m \in hits : k <= m

\* Mutant of check_file_filter: an empty list of free arguments selects
\* nothing.
check_file_filter_NoBypass(o, h, found) ==
    LET k == options_find_free_argument(o, h, found)
        ret == k # 0
    IN  [ret |-> ret,
         found |-> IF k # 0 THEN [found EXCEPT ![k] = TRUE] ELSE found,
         out |-> IF ret /\ (o.t \/ (o.x /\ o.v))
                 THEN <<Listing(PrintfPrec(h, NAME_OFFSET, NAME_SIZE))>>
                 ELSE <<>>]

\* Mutant of check_file_filter: the listing line is printed in every mode.
check_file_filter_AlwaysPrint(o, h, found) ==
    LET all == ~options_has_free_arguments(o)
        k == IF all THEN 0 ELSE options_find_free_argument(o, h, found)
        ret == all \/ k # 0
    IN  [ret |-> ret,
         found |-> IF k # 0 THEN [found EXCEPT ![k] = TRUE] ELSE found,
         out |-> IF ret
                 THEN <<Listing(PrintfPrec(h, NAME_OFFSET, NAME_SIZE))>>
                 ELSE <<>>]

\* [ret, found, out]: the result, the found array after the call and the
\* lines printed.
check_file_filter(o, h, found) ==
    LET all == ~options_has_free_arguments(o)
        k == IF all THEN 0 ELSE options_find_free_argument(o, h, found)
        ret == all \/ k # 0
    IN  [ret |-> ret,
         found |-> IF k # 0 THEN [found EXCEPT ![k] = TRUE] ELSE found,
         out |-> IF ret /\ (o.t \/ (o.x /\ o.v))
                 THEN <<Listing(PrintfPrec(h, NAME_OFFSET, NAME_SIZE))>>
                 ELSE <<>>]

RECURSIVE NotFoundLines(_, _, _)
NotFoundLines(args, found, k) ==
    IF k > Len(args) THEN <<>>
    ELSE (IF ~found[k] THEN <<NotFound(args[k])>> ELSE <<>>)
             \o NotFoundLines(args, found, k + 1)

\* Mutant of check_files: the lines are printed but the result is 0.
check_files_NoFailure(o, found) ==
    [ret |-> 0, out |-> NotFoundLines(o.free_arguments, found, 1)]

\* [ret, out]: the return code and the lines printed.
check_files(o, found) ==
    LET lines == NotFoundLines(o.free_arguments, found, 1)
    IN  IF lines # <<>>
        THEN [ret |-> 2, out |-> lines \o <<ExitingWithFailure>>]
        ELSE [ret |-> 0, out |-> <<>>]

make_files_found(o) == [k \in 1..Len(o.free_arguments) |-> FALSE]

(***************************************************************************)
(* State of main().                                                        *)
(***************************************************************************)
VARIABLES
    options,         \* the parsed command line: t, x, v, free_arguments
    return_code,
    block_index,
    was_null_block,
    file_output,     \* 0 for NULL, else the index in `files` of the FILE
    files_found,
    header,          \* index in Blocks of the header last read, 0 before
    size,
    record_count,
    i,               \* the counter of the payload loop
    pc,              \* "header", "payload", "exit" or "done"
    stop,            \* the statement that left the scan loop, "" inside it
    consumed,        \* every fread made on the archive: [id, n, site]
    out,             \* the lines printed to stdout
    err,             \* the lines printed to stderr
    files            \* every file opened for writing: [name, entry, data,
                     \* open]; entry is the position in `consumed` of the
                     \* header, data the fwrite calls <<position, count>>

vars == <<options, return_code, block_index, was_null_block, file_output,
          files_found, header, size, record_count, i, pc, stop, consumed,
          out, err, files>>

\* A read of a full record `id`, or of n < RECORD_SIZE bytes at the end, made
\* by the fread of read_header ("header") or of the payload loop ("payload").
FullRead(id, site) == [id |-> id, n |-> RECORD_SIZE, site |-> site]
ShortRead(n, site) == [id |-> 0, n |-> n, site |-> site]

FullCount(reads) == Cardinality({k \in 1..Len(reads) : reads[k].n = RECORD_SIZE})

\* The archive still holds a full record.
MoreRecords == FullCount(consumed) < MaxBlocks

\* The state after parse_arguments succeeded, the archive was opened and the
\* locals of main() were initialized.
Init ==
    /\ options \in [t : BOOLEAN, x : BOOLEAN, v : BOOLEAN,
                    free_arguments : FreeArgumentLists]
    /\ options.t # options.x
    /\ return_code = 0
    /\ block_index = 0
    /\ was_null_block = FALSE
    /\ file_output = 0
    /\ files_found = make_files_found(options)
    /\ header = 0
    /\ size = 0
    /\ record_count = 0
    /\ i = 0
    /\ pc = "header"
    /\ stop = ""
    /\ consumed = <<>>
    /\ out = <<>>
    /\ err = <<>>
    /\ files = <<>>

\* read_header returns READ_HEADER_EOF.
ReadHeaderEOF ==
    /\ pc = "header"
    /\ consumed' = Append(consumed, ShortRead(0, "header"))
    /\ out' = IF was_null_block
              THEN Append(out, LoneZeroBlock(block_index))
              ELSE out
    /\ return_code' = 0
    /\ pc' = "exit"
    /\ stop' = "eof"
    /\ UNCHANGED <<options, block_index, was_null_block, file_output,
                   files_found, header, size, record_count, i, err, files>>

\* read_header returns READ_HEADER_PARTIAL.
ReadHeaderPartial(n) ==
    /\ pc = "header"
    /\ consumed' = Append(consumed, ShortRead(n, "header"))
    /\ out' = Append(out, UnexpectedEOF)
    /\ return_code' = 2
    /\ pc' = "exit"
    /\ stop' = "partial_header"
    /\ UNCHANGED <<options, block_index, was_null_block, file_output,
                   files_found, header, size, record_count, i, err, files>>

\* Mutant of OpenSink: the result of fopen is not checked.
OpenSink_Unchecked(o, h, selected, fopen_ok) ==
    [opened |-> selected /\ o.x /\ fopen_ok, err |-> <<>>, ret |-> 0,
     brk |-> FALSE]

\* The fopen of a selected entry in extract mode, which succeeds or not as
\* fopen_ok says: whether a file was opened, the lines printed to stderr,
\* and whether the scan loop is left, with which return code.
OpenSink(o, h, selected, fopen_ok) ==
    IF selected /\ o.x
    THEN IF fopen_ok
         THEN [opened |-> TRUE, err |-> <<>>, ret |-> 0, brk |-> FALSE]
         ELSE [opened |-> FALSE,
               err |-> <<CouldntCreate(CStr(h, NAME_OFFSET))>>,
               ret |-> 9, brk |-> TRUE]
    ELSE [opened |-> FALSE, err |-> <<>>, ret |-> 0, brk |-> FALSE]

\* read_header returns READ_HEADER_FULL with record `id`: the rest of the
\* loop body up to the payload loop.  fopen_ok is whether fopen succeeds,
\* should it be called.
ReadHeaderFull(id, fopen_ok) ==
    LET h == Blocks[id]
        valid == header_check_valid(h)
        f == check_file_filter(options, h, files_found)
        sink == OpenSink(options, h, f.ret, fopen_ok)
    IN
    /\ pc = "header"
    /\ MoreRecords
    /\ consumed' = Append(consumed, FullRead(id, "header"))
    /\ block_index' = block_index + 1
    /\ header' = id
    /\ UNCHANGED options
    /\ IF header_is_null(h)
       THEN /\ IF was_null_block
               THEN /\ return_code' = 0
                    /\ pc' = "exit"
                    /\ stop' = "two_null_blocks"
                    /\ UNCHANGED was_null_block
               ELSE /\ was_null_block' = TRUE
                    /\ UNCHANGED <<return_code, pc, stop>>
            /\ UNCHANGED <<file_output, files_found, size, record_count, i,
                           out, err, files>>
       ELSE IF valid.ret # 0
       THEN /\ return_code' = valid.ret
            /\ err' = err \o valid.err
            /\ pc' = "exit"
            /\ stop' = IF valid.err = <<NotATarArchive>>
                       THEN "invalid_magic"
                       ELSE "unsupported_type"
            /\ UNCHANGED <<was_null_block, file_output, files_found, size,
                           record_count, i, out, files>>
       ELSE /\ files_found' = f.found
            /\ out' = out \o f.out
            /\ err' = err \o sink.err
            /\ UNCHANGED was_null_block
            /\ IF sink.brk
               THEN /\ return_code' = sink.ret
                    /\ pc' = "exit"
                    /\ stop' = "fopen_failed"
                    /\ UNCHANGED <<file_output, size, record_count, i, files>>
               ELSE /\ IF sink.opened
                       THEN /\ files' = Append(files,
                                   [name |-> CStr(h, NAME_OFFSET),
                                    entry |-> Len(consumed) + 1,
                                    data |-> <<>>, open |-> TRUE])
                            /\ file_output' = Len(files) + 1
                       ELSE UNCHANGED <<files, file_output>>
                    /\ return_code' = valid.ret
                    /\ size' = header_get_size(h)
                    /\ record_count' = size_to_record_count(header_get_size(h))
                    /\ i' = 0
                    /\ pc' = "payload"
                    /\ UNCHANGED stop

\* Mutant of WriteCount: the padding of the last record is written too.
WriteCount_WholeRecord(read, sz) == read

\* The number of bytes of the buffer that one iteration of the payload loop
\* passes to fwrite.
WriteCount(read, sz) ==
    IF read < RECORD_SIZE THEN read
    ELSE IF sz >= RECORD_SIZE THEN RECORD_SIZE
    ELSE sz

\* Mutant of PayloadRead: payload records are not counted.
PayloadRead_NoCount(r) ==
    /\ pc = "payload"
    /\ i # record_count
    /\ r.n = RECORD_SIZE => MoreRecords
    /\ consumed' = Append(consumed, r)
    /\ files' = IF file_output # 0
                THEN [files EXCEPT ![file_output].data =
                         Append(@, <<Len(consumed) + 1, WriteCount(r.n, size)>>)]
                ELSE files
    /\ size' = (size - r.n) % (SIZE_MAX + 1)
    /\ IF r.n # RECORD_SIZE
       THEN /\ out' = Append(out, UnexpectedEOF)
            /\ return_code' = 2
            /\ pc' = "exit"
            /\ stop' = "partial_payload"
            /\ UNCHANGED <<block_index, i>>
       ELSE /\ block_index' = block_index
            /\ i' = i + 1
            /\ UNCHANGED <<out, return_code, pc, stop>>
    /\ UNCHANGED <<options, was_null_block, file_output, files_found, header,
                   record_count, err>>

\* The payload loop is over with return_code still 0: the output file is
\* closed and the scan loop goes round.
\* Mutant of PayloadRead: the length of the read is not checked, and the
\* loop goes on to the declared count.
PayloadRead_NoShortCheck(r) ==
    /\ pc = "payload"
    /\ i # record_count
    /\ r.n = RECORD_SIZE => MoreRecords
    /\ consumed' = Append(consumed, r)
    /\ files' = IF file_output # 0
                THEN [files EXCEPT ![file_output].data =
                         Append(@, <<Len(consumed) + 1, WriteCount(r.n, size)>>)]
                ELSE files
    /\ size' = (size - r.n) % (SIZE_MAX + 1)
    /\ block_index' = block_index + 1
    /\ i' = i + 1
    /\ UNCHANGED <<out, return_code, pc, stop>>
    /\ UNCHANGED <<options, was_null_block, file_output, files_found, header,
                   record_count, err>>

\* One iteration of the payload loop, whose fread returns r.
PayloadRead(r) ==
    /\ pc = "payload"
    /\ i # record_count
    /\ r.n = RECORD_SIZE => MoreRecords
    /\ consumed' = Append(consumed, r)
    /\ files' = IF file_output # 0
                THEN [files EXCEPT ![file_output].data =
                         Append(@, <<Len(consumed) + 1, WriteCount(r.n, size)>>)]
                ELSE files
    /\ size' = (size - r.n) % (SIZE_MAX + 1)
    /\ IF r.n # RECORD_SIZE
       THEN /\ out' = Append(out, UnexpectedEOF)
            /\ return_code' = 2
            /\ pc' = "exit"
            /\ stop' = "partial_payload"
            /\ UNCHANGED <<block_index, i>>
       ELSE /\ block_index' = block_index + 1
            /\ i' = i + 1
            /\ UNCHANGED <<out, return_code, pc, stop>>
    /\ UNCHANGED <<options, was_null_block, file_output, files_found, header,
                   record_count, err>>

\* The payload loop is over with return_code still 0: the output file is
\* closed and the scan loop goes round.
EndEntry ==
    /\ pc = "payload"
    /\ i = record_count
    /\ pc' = "header"
    /\ IF file_output # 0
       THEN /\ files' = [files EXCEPT ![file_output].open = FALSE]
            /\ file_output' = 0
       ELSE UNCHANGED <<files, file_output>>
    /\ UNCHANGED <<options, return_code, block_index, was_null_block,
                   files_found, header, size, record_count, i, stop,
                   consumed, out, err>>

\* Mutant of ReportsNotFound: the report is made in extract mode too.
ReportsNotFound_AnyMode(o) == options_has_free_arguments(o)

\* The condition under which the statements after the scan loop call
\* check_files.
ReportsNotFound(o) == o.t /\ options_has_free_arguments(o)

\* Mutant of Exit: the output file left open by an aborted payload loop is
\* not closed.
Exit_NoClose ==
    LET c == check_files(options, files_found)
        report == ReportsNotFound(options)
    IN
    /\ pc = "exit"
    /\ return_code' = IF report THEN c.ret ELSE return_code
    /\ out' = IF report THEN out \o c.out ELSE out
    /\ pc' = "done"
    /\ UNCHANGED <<options, block_index, was_null_block, file_output,
                   files_found, header, size, record_count, i, stop,
                   consumed, err, files>>

\* The statements after the scan loop.
Exit ==
    LET c == check_files(options, files_found)
        report == ReportsNotFound(options)
    IN
    /\ pc = "exit"
    /\ return_code' = IF report THEN c.ret ELSE return_code
    /\ out' = IF report THEN out \o c.out ELSE out
    /\ files' = IF file_output # 0
                THEN [files EXCEPT ![file_output].open = FALSE]
                ELSE files
    /\ pc' = "done"
    /\ UNCHANGED <<options, block_index, was_null_block, file_output,
                   files_found, header, size, record_count, i, stop,
                   consumed, err>>

Next ==
    \/ ReadHeaderEOF
    \/ \E n \in PartialLens : ReadHeaderPartial(n)
    \/ \E id \in BlockIds, fopen_ok \in BOOLEAN : ReadHeaderFull(id, fopen_ok)
    \/ \E id \in BlockIds : PayloadRead(FullRead(id, "payload"))
    \/ \E n \in PartialLens \cup {0} : PayloadRead(ShortRead(n, "payload"))
    \/ EndEntry
    \/ Exit

Spec == Init /\ [][Next]_vars

(***************************************************************************)
(* Vocabulary of the properties.                                           *)
(***************************************************************************)
CleanStops == {"eof", "two_null_blocks"}
FatalStops == {"partial_header", "partial_payload", "invalid_magic",
               "unsupported_type"}

\* The records of Blocks that are all zero.
ZeroIds == {id \in 1..Len(Blocks) : Blocks[id] = Zeros(RECORD_SIZE)}
IsZeroRecord(r) == r.n = RECORD_SIZE /\ r.id \in ZeroIds
FullReads(reads) == SelectSeq(reads, LAMBDA r : r.n = RECORD_SIZE)
LinesOf(lines, k) == SelectSeq(lines, LAMBDA l : l.k = k)

\* ceil(s / 512) in the integers.
CeilRecords(s) == (s + RECORD_SIZE - 1) \div RECORD_SIZE

\* The declared size of the entry that file f was opened for.
DeclaredSize(f) == header_get_size(Blocks[consumed[f.entry].id])

\* All the payload records of the entry of f were read in full.
PayloadPresent(f) ==
    LET rc == CeilRecords(DeclaredSize(f))
    IN  /\ Len(consumed) >= f.entry + rc
        /\ \A k \in 1..rc : consumed[f.entry + k].n = RECORD_SIZE

\* The first DeclaredSize(f) bytes of the payload records, record by record.
ExpectedData(f) ==
    LET s == DeclaredSize(f)
        rc == CeilRecords(s)
    IN  [k \in 1..rc |->
            <<f.entry + k,
              IF k < rc THEN RECORD_SIZE ELSE s - RECORD_SIZE * (rc - 1)>>]

(***************************************************************************)
(* C1: every scan that aborts with a truncated header or payload record,   *)
(* an invalid magic or an unsupported entry type ends the run with a       *)
(* non-zero return code.                                                   *)
(***************************************************************************)
C1_FatalErrorIsFailure ==
    (pc = "done" /\ stop \in FatalStops) => return_code # 0

(***************************************************************************)
(* C2: whenever the scan stops cleanly upon reading an all-zero record,    *)
(* the record consumed immediately before it was all-zero too.             *)
(***************************************************************************)
C2_CleanEndIsTwoConsecutiveZeroRecords ==
    stop = "two_null_blocks" =>
        /\ Len(consumed) >= 2
        /\ IsZeroRecord(consumed[Len(consumed)])
        /\ IsZeroRecord(consumed[Len(consumed) - 1])

(***************************************************************************)
(* C3: at end of stream at a header position the scan ends with return     *)
(* code 0, and the lone-zero-block line is printed if and only if the last *)
(* record consumed was an all-zero record read at a header position.       *)
(***************************************************************************)
C3_LoneZeroIffLastRecordZero ==
    stop = "eof" =>
        LET full == FullReads(consumed)
            last == full[Len(full)]
        IN  /\ pc = "exit" => return_code = 0
            /\ LinesOf(out, "lone_zero_block") # <<>>
                   <=> /\ Len(full) > 0
                       /\ last.site = "header"
                       /\ IsZeroRecord(last)

(***************************************************************************)
(* C4: a file opened for an entry whose ceil(size/512) payload records     *)
(* were all read in full received exactly the first `size` bytes of those  *)
(* records, in order: 512 from each record but the last, the rest from the *)
(* last, and nothing for an entry of size 0.                               *)
(***************************************************************************)
C4_ExtractWritesExactlySize ==
    \A j \in 1..Len(files) :
        PayloadPresent(files[j]) => files[j].data = ExpectedData(files[j])

\* A closed file of an entry of 530 bytes: 512 bytes of the first payload
\* record and 18 of the second.
C4_Witness ==
    \E j \in 1..Len(files) :
        /\ ~files[j].open
        /\ DeclaredSize(files[j]) = 530
        /\ files[j].data = << <<files[j].entry + 1, 512>>,
                              <<files[j].entry + 2, 18>> >>

(***************************************************************************)
(* C5: no fwrite of the payload loop passes more bytes than                *)
(* min(remaining size, 512), a short read included.                        *)
(***************************************************************************)
C5_WriteWithinRemainingSize ==
    \A j \in 1..Len(files) :
        \A k \in 1..Len(files[j].data) :
            files[j].data[k][2] <=
                Min(RECORD_SIZE, DeclaredSize(files[j]) - RECORD_SIZE * (k - 1))

(***************************************************************************)
(* More vocabulary: headers as the properties see them, and steps.         *)
(***************************************************************************)
MagicField(h) == SubSeq(h, MAGIC_OFFSET + 1, MAGIC_OFFSET + MAGIC_SIZE)
AcceptedMagics == {TMAGIC \o <<0>>, TMAGICS}
NameOf(h) == CStr(h, NAME_OFFSET)

\* A non-zero header with an accepted magic and a regular-file typeflag.
ValidEntry(h) ==
    /\ h # Zeros(RECORD_SIZE)
    /\ MagicField(h) \in AcceptedMagics
    /\ h[TYPEFLAG_OFFSET + 1] \in {REGTYPE, AREGTYPE}

\* This step reads a full record at a header position.
ReadsHeader ==
    /\ pc = "header"
    /\ Len(consumed') = Len(consumed) + 1
    /\ consumed'[Len(consumed')].n = RECORD_SIZE

\* The record that a ReadsHeader step reads.
HeaderRead == Blocks[consumed'[Len(consumed')].id]

\* The indices of the requested names whose found-bit is false, in order.
Unfound ==
    SelectSeq([k \in 1..Len(options.free_arguments) |-> k],
              LAMBDA k : ~files_found[k])

(***************************************************************************)
(* C6: in list mode with requested names, when the scan ended cleanly, the *)
(* final statements return non-zero if and only if some found-bit is       *)
(* false, print one not-found line for each requested name whose found-bit *)
(* is false, in the order of the command line, and leave the lines printed *)
(* before in place.                                                        *)
(***************************************************************************)
C6_ListReportsExactlyUnfound ==
    [][(/\ pc = "exit"
        /\ pc' = "done"
        /\ options.t
        /\ options.free_arguments # <<>>
        /\ stop \in CleanStops)
       => /\ (return_code' # 0) <=> (Unfound # <<>>)
          /\ LinesOf(out', "not_found") =
                 [j \in 1..Len(Unfound) |->
                     NotFound(options.free_arguments[Unfound[j]])]
          /\ Len(out') >= Len(out)
          /\ SubSeq(out', 1, Len(out)) = out
          /\ LinesOf(out', "listing") = LinesOf(out, "listing")]_vars

\* List mode for "b a" on an archive that holds a but not b: a was listed,
\* b is reported and the run fails.
C6_Witness ==
    /\ pc = "done"
    /\ options.t
    /\ options.free_arguments = <<NameB, NameA>>
    /\ stop \in CleanStops
    /\ files_found = <<FALSE, TRUE>>
    /\ return_code = 2
    /\ LinesOf(out, "listing") = <<Listing(NameA)>>
    /\ LinesOf(out, "not_found") = <<NotFound(NameB)>>

(***************************************************************************)
(* C7: after a scan that was aborted (truncation, invalid magic,           *)
(* unsupported type, file creation) no not-found line is printed and the   *)
(* return code is the one of the abort.                                    *)
(***************************************************************************)
C7_NoReportAfterAbort ==
    (pc = "done" /\ stop \notin CleanStops) =>
        /\ LinesOf(out, "not_found") = <<>>
        /\ return_code # 0

(***************************************************************************)
(* C8: a non-zero header whose magic is neither "ustar\0" nor "ustar "     *)
(* stops the scan there with the not-a-tar-archive error, without a        *)
(* listing line, a new file or a change of a found-bit; and from then on   *)
(* no record is read, no listing line printed, no file created and no      *)
(* found-bit changed.                                                      *)
(***************************************************************************)
C8_InvalidMagicHaltsScan ==
    [][/\ (/\ ReadsHeader
           /\ HeaderRead # Zeros(RECORD_SIZE)
           /\ MagicField(HeaderRead) \notin AcceptedMagics)
          => /\ stop' = "invalid_magic"
             /\ pc' = "exit"
             /\ return_code' # 0
             /\ err' = Append(err, NotATarArchive)
             /\ out' = out
             /\ files' = files
             /\ files_found' = files_found
       /\ stop = "invalid_magic"
          => /\ consumed' = consumed
             /\ LinesOf(out', "listing") = LinesOf(out, "listing")
             /\ files' = files
             /\ files_found' = files_found]_vars

\* A run that ended on an invalid magic after an entry was extracted.
C8_Witness ==
    /\ pc = "done"
    /\ stop = "invalid_magic"
    /\ Len(consumed) >= 2
    /\ Len(files) >= 1
    /\ MagicField(Blocks[consumed[Len(consumed)].id]) \notin AcceptedMagics

(***************************************************************************)
(* C9: the found array always has the length of the requested names,       *)
(* starts all false, never loses a true bit, and a step sets at most one   *)
(* bit.  An entry whose name is requested exactly once is selected and     *)
(* sets the bit when the bit is false; when the bit is already true the    *)
(* entry prints nothing, opens no file and changes no bit, and its payload *)
(* records are still read.                                                 *)
(***************************************************************************)
C9_FoundBitsMonotonicFirstMatchWins ==
    [][LET args == options.free_arguments
           at == {k \in 1..Len(args) : args[k] = NameOf(HeaderRead)}
           k == CHOOSE m \in at : TRUE
       IN  /\ Len(files_found) = Len(args)
           /\ Len(files_found') = Len(args)
           /\ consumed = <<>> => \A m \in 1..Len(args) : ~files_found[m]
           /\ \A m \in 1..Len(args) : files_found[m] => files_found'[m]
           /\ Cardinality({m \in 1..Len(args) :
                              files_found'[m] # files_found[m]}) <= 1
           /\ (ReadsHeader /\ ValidEntry(HeaderRead) /\ Cardinality(at) = 1)
              => IF ~files_found[k]
                 THEN /\ files_found' = [files_found EXCEPT ![k] = TRUE]
                      /\ (options.t \/ options.v)
                         => out' = Append(out, Listing(NameOf(HeaderRead)))
                      /\ options.x
                         => \/ Len(files') = Len(files) + 1
                            \/ stop' = "fopen_failed"
                 ELSE /\ files_found' = files_found
                      /\ out' = out
                      /\ files' = files
                      /\ err' = err
                      /\ pc' = "payload"
                      /\ i' = 0
                      /\ record_count' =
                             CeilRecords(header_get_size(HeaderRead))]_vars

\* "a" requested once, two entries named a: the first was listed, the second
\* was not, and the two payload records of the second were read.
C9_Witness ==
    /\ options.t
    /\ options.free_arguments = <<NameA>>
    /\ consumed = <<FullRead(2, "header"), FullRead(3, "header"),
                    FullRead(7, "payload"), FullRead(7, "payload")>>
    /\ pc = "header"
    /\ files_found = <<TRUE>>
    /\ out = <<Listing(NameA)>>

(***************************************************************************)
(* C10: with no requested names every valid entry is selected, whatever    *)
(* its name: reading its header prints its listing line (list mode, or     *)
(* extract mode with -v) and, in extract mode, asks for one file of its    *)
(* name; no other step prints a listing line or asks for a file; and no    *)
(* not-found line is ever printed.                                         *)
(***************************************************************************)
C10_EmptyFilterSelectsEveryEntry ==
    [][options.free_arguments = <<>> =>
          /\ (ReadsHeader /\ ValidEntry(HeaderRead))
             => /\ LinesOf(out', "listing") =
                       IF options.t \/ options.v
                       THEN Append(LinesOf(out, "listing"),
                                   Listing(NameOf(HeaderRead)))
                       ELSE LinesOf(out, "listing")
                /\ options.t => files' = files /\ err' = err
                /\ options.x =>
                       \/ /\ Len(files') = Len(files) + 1
                          /\ files'[Len(files')].name = NameOf(HeaderRead)
                          /\ SubSeq(files', 1, Len(files)) = files
                          /\ err' = err
                       \/ /\ files' = files
                          /\ err' = Append(err, CouldntCreate(NameOf(HeaderRead)))
          /\ ~(ReadsHeader /\ ValidEntry(HeaderRead))
             => /\ LinesOf(out', "listing") = LinesOf(out, "listing")
                /\ Len(files') = Len(files)
                /\ LinesOf(err', "could_not_create") = LinesOf(err, "could_not_create")
          /\ LinesOf(out', "not_found") = <<>>]_vars

\* Extraction without names of an archive with two entries of the same
\* name: two files were asked for and both lines were printed.
C10_Witness ==
    /\ pc = "done"
    /\ options.x
    /\ options.v
    /\ options.free_arguments = <<>>
    /\ Len(files) = 2
    /\ files[1].name = NameA
    /\ files[2].name = NameA
    /\ out = <<Listing(NameA), Listing(NameA)>>

(***************************************************************************)
(* C11: in extract mode the requested names that were never matched play   *)
(* no part: no not-found line is printed, a scan that ended cleanly        *)
(* returns 0 whatever the found-bits, and with requested names one file    *)
(* was asked for per found-bit set (created, or its creation failed).      *)
(***************************************************************************)
C11_ExtractIgnoresUnmatchedNames ==
    options.x =>
        /\ LinesOf(out, "not_found") = <<>>
        /\ (pc = "done" /\ stop \in CleanStops) => return_code = 0
        /\ options.free_arguments # <<>> =>
               Len(files) + Len(LinesOf(err, "could_not_create")) =
                   Cardinality({k \in 1..Len(files_found) : files_found[k]})

\* Extraction of "a b" from an archive that holds only a: one file, b not
\* found, return code 0.
C11_Witness ==
    /\ pc = "done"
    /\ options.x
    /\ options.free_arguments = <<NameA, NameB>>
    /\ stop \in CleanStops
    /\ files_found = <<TRUE, FALSE>>
    /\ Len(files) = 1
    /\ files[1].name = NameA
    /\ return_code = 0

(***************************************************************************)
(* The structure of a scan as a function of the bytes read alone: neither  *)
(* operator below reads the options, the found-bits or the files.          *)
(***************************************************************************)
\* The fread (of read_header or of the payload loop) that makes each read,
\* from read k on, when `left` payload records of the current entry are
\* still to come.
\* The records of Blocks that are valid entries, and the number of payload
\* records that each declares.
ValidEntryIds == {id \in 1..Len(Blocks) : ValidEntry(Blocks[id])}
DeclaredRecords == [id \in 1..Len(Blocks) |->
                       CeilRecords(header_get_size(Blocks[id]))]
BadMagicIds == {id \in 1..Len(Blocks) :
                   MagicField(Blocks[id]) \notin AcceptedMagics}
BadTypeIds == {id \in 1..Len(Blocks) :
                  Blocks[id][TYPEFLAG_OFFSET + 1] \notin {REGTYPE, AREGTYPE}}

RECURSIVE SitesFrom(_, _, _)
SitesFrom(reads, k, left) ==
    IF k > Len(reads) THEN <<>>
    ELSE IF left > 0 THEN <<"payload">> \o SitesFrom(reads, k + 1, left - 1)
    ELSE <<"header">> \o
         SitesFrom(reads, k + 1,
                   IF reads[k].n = RECORD_SIZE /\ reads[k].id \in ValidEntryIds
                   THEN DeclaredRecords[reads[k].id]
                   ELSE 0)

\* The way the scan loop is left after these reads, "" when it is not.
StopOf(reads) ==
    IF reads = <<>> THEN ""
    ELSE LET n == Len(reads)
             last == reads[n]
             sites == SitesFrom(reads, 1, 0)
             zero_before == \E k \in 1..(n - 1) :
                                sites[k] = "header" /\ IsZeroRecord(reads[k])
         IN  IF last.n # RECORD_SIZE
             THEN IF sites[n] = "payload" THEN "partial_payload"
                  ELSE IF last.n = 0 THEN "eof"
                  ELSE "partial_header"
             ELSE IF sites[n] = "payload" THEN ""
             ELSE IF IsZeroRecord(last)
             THEN IF zero_before THEN "two_null_blocks" ELSE ""
             ELSE IF last.id \in BadMagicIds THEN "invalid_magic"
             ELSE IF last.id \in BadTypeIds THEN "unsupported_type"
             ELSE ""

(***************************************************************************)
(* C12: where the headers are read, where and why the scan stops and the   *)
(* final block index are functions of the bytes of the archive alone, not  *)
(* of the mode, the verbose flag, the requested names or the selection     *)
(* (file creation failures apart); in particular the header after an entry *)
(* of declared size s is read 1 + ceil(s/512) records after that entry's   *)
(* header, selected or not.                                                *)
(***************************************************************************)
C12_ScanStructureDependsOnStreamOnly ==
    /\ [k \in 1..Len(consumed) |-> consumed[k].site] = SitesFrom(consumed, 1, 0)
    /\ stop # "fopen_failed" =>
           /\ stop = StopOf(consumed)
           /\ pc \in {"exit", "done"} => block_index = FullCount(consumed)
           /\ (stop = "eof" /\ pc = "done") =>
                  (LinesOf(out, "lone_zero_block") # <<>>
                      <=> \E k \in 1..Len(consumed) :
                              /\ consumed[k].site = "header"
                              /\ IsZeroRecord(consumed[k]))

\* Only a is requested: the payload record of the entry b, which is not
\* selected (and looks like a header), was read before the header of a.
C12_Witness ==
    /\ options.free_arguments = <<NameA>>
    /\ consumed = <<FullRead(4, "header"), FullRead(4, "payload"),
                    FullRead(2, "header")>>
    /\ files_found = <<TRUE>>
    /\ pc = "payload"

(***************************************************************************)
(* C13: at most one output file is open, and it is the one file_output     *)
(* points to; none is open when a header is about to be read; a file is    *)
(* opened only in extract mode, for a valid entry that no requested name   *)
(* excludes; and no file is open once the run is over, whichever way the   *)
(* scan loop was left.                                                     *)
(***************************************************************************)
C13_OneSinkClosedOnEveryPath ==
    LET open == {j \in 1..Len(files) : files[j].open}
    IN  /\ Cardinality(open) <= 1
        /\ open # {} => open = {file_output}
        /\ pc = "header" => open = {} /\ file_output = 0
        /\ pc = "done" => open = {}
        /\ options.t => files = <<>>
        /\ \A j \in 1..Len(files) :
               /\ consumed[files[j].entry].site = "header"
               /\ consumed[files[j].entry].id \in ValidEntryIds
               /\ options.free_arguments # <<>> =>
                      \E k \in 1..Len(options.free_arguments) :
                          /\ options.free_arguments[k] = files[j].name
                          /\ files_found[k]

\* A run whose payload loop was cut short while a file was open, after an
\* earlier entry was extracted in full: both files are closed at the end.
C13_Witness ==
    /\ pc = "done"
    /\ stop = "partial_payload"
    /\ Len(files) = 2
    /\ files[2].data # <<>>
    /\ \A j \in 1..Len(files) : ~files[j].open

(***************************************************************************)
(* C14: a record read at a header position is checked for all-zero first,  *)
(* then for its magic, then for its typeflag.  An all-zero record prints   *)
(* no error; a non-zero record with an unaccepted magic prints the         *)
(* not-a-tar-archive error, whatever its typeflag; a non-zero record with  *)
(* an accepted magic and a typeflag other than '0' and NUL stops the scan  *)
(* with the unsupported-type error before any found-bit, listing line,     *)
(* file or payload read, and nothing is read afterwards.                   *)
(***************************************************************************)
C14_ValidationOrder ==
    [][LET id == consumed'[Len(consumed')].id
           untouched == /\ out' = out
                        /\ files' = files
                        /\ files_found' = files_found
                        /\ file_output' = file_output
       IN  /\ (ReadsHeader /\ id \in ZeroIds)
              => /\ err' = err
                 /\ stop' \notin {"invalid_magic", "unsupported_type"}
                 /\ return_code' = 0
                 /\ untouched
           /\ (ReadsHeader /\ id \notin ZeroIds /\ id \in BadMagicIds)
              => /\ err' = Append(err, NotATarArchive)
                 /\ stop' = "invalid_magic"
                 /\ untouched
           /\ (ReadsHeader /\ id \notin ZeroIds /\ id \notin BadMagicIds
                 /\ id \in BadTypeIds)
              => /\ err' = Append(err,
                        UnsupportedType(Blocks[id][TYPEFLAG_OFFSET + 1]))
                 /\ stop' = "unsupported_type"
                 /\ pc' = "exit"
                 /\ return_code' # 0
                 /\ untouched
           /\ stop = "unsupported_type"
              => /\ consumed' = consumed
                 /\ LinesOf(out', "listing") = LinesOf(out, "listing")
                 /\ files' = files
                 /\ files_found' = files_found]_vars

\* A run stopped by a record whose magic and typeflag are both wrong, after
\* a zero record: the error printed is the not-a-tar-archive one.
C14_Witness ==
    /\ pc = "done"
    /\ stop = "invalid_magic"
    /\ Len(consumed) >= 2
    /\ consumed[1].id \in ZeroIds
    /\ consumed[Len(consumed)].id \in BadMagicIds \cap BadTypeIds
    /\ err = <<NotATarArchive>>

(***************************************************************************)
(* C15: in extract mode the header of a selected valid entry either opens  *)
(* a file or, when the file cannot be created, stops the scan at once with *)
(* the creation error and a non-zero return code; after such a stop no     *)
(* record is read, no listing line is printed, no file is opened, no file  *)
(* is open, and the run ends with a non-zero return code.                  *)
(***************************************************************************)
C15_SinkFailureIsFatal ==
    [][LET id == consumed'[Len(consumed')].id
           args == options.free_arguments
           selected == \/ args = <<>>
                       \/ \E k \in 1..Len(args) :
                              ~files_found[k] /\ args[k] = NameOf(Blocks[id])
       IN  /\ (ReadsHeader /\ id \in ValidEntryIds /\ selected /\ options.x)
              => \/ /\ Len(files') = Len(files) + 1
                    /\ files'[Len(files')].open
                    /\ err' = err
                    /\ pc' = "payload"
                 \/ /\ files' = files
                    /\ err' = Append(err, CouldntCreate(NameOf(Blocks[id])))
                    /\ stop' = "fopen_failed"
                    /\ pc' = "exit"
                    /\ return_code' # 0
           /\ stop = "fopen_failed"
              => /\ consumed' = consumed
                 /\ LinesOf(out', "listing") = LinesOf(out, "listing")
                 /\ files' = files
                 /\ \A j \in 1..Len(files) : ~files[j].open
                 /\ return_code' # 0]_vars

\* The second entry of an archive could not be created: the run is over with
\* one file, closed, and nothing was read after the header of that entry,
\* which declares a payload.
C15_Witness ==
    /\ pc = "done"
    /\ stop = "fopen_failed"
    /\ Len(consumed) = 2
    /\ DeclaredRecords[consumed[2].id] > 0
    /\ Len(files) = 1
    /\ ~files[1].open
    /\ return_code = 9

\* The name field of each record: its bytes before the first NUL, all 100
\* of them when there is none.
NameFields ==
    [id \in 1..Len(Blocks) |->
        LET p == CHOOSE p \in 0..NAME_SIZE :
                     /\ p = NAME_SIZE \/ Blocks[id][NAME_OFFSET + p + 1] = 0
                     /\ \A q \in 0..(p - 1) : Blocks[id][NAME_OFFSET + q + 1] # 0
        IN  SubSeq(Blocks[id], NAME_OFFSET + 1, NAME_OFFSET + p)]

(***************************************************************************)
(* C16: the step that reads the header of a valid entry which is selected  *)
(* (no name was requested, or its name field equals a requested name whose *)
(* found-bit is false) prints exactly one line, the listing line of its    *)
(* name field, in list mode and in extract mode with verbose; every other  *)
(* step in every mode leaves the listing lines as they are, so that an     *)
(* entry's line precedes the read of its payload and the lines are in      *)
(* archive order; extract mode without verbose has no listing line.        *)
(***************************************************************************)
C16_ListingExactlyForSelectedEntries ==
    [][LET id == consumed'[Len(consumed')].id
           args == options.free_arguments
           selected == \/ args = <<>>
                       \/ \E k \in 1..Len(args) :
                              ~files_found[k] /\ args[k] = NameFields[id]
           lists == options.t \/ (options.x /\ options.v)
           entry == ReadsHeader /\ id \in ValidEntryIds /\ selected
       IN  /\ (entry /\ lists) => out' = Append(out, Listing(NameFields[id]))
           /\ ~(entry /\ lists)
              => LinesOf(out', "listing") = LinesOf(out, "listing")
           /\ ~lists => /\ LinesOf(out, "listing") = <<>>
                        /\ LinesOf(out', "listing") = <<>>]_vars

\* Extract mode with verbose and the requested name a: the entry b with one
\* payload record was passed over, then the entry a was listed and created.
C16_Witness ==
    /\ options.x /\ options.v
    /\ options.free_arguments = <<NameA>>
    /\ Len(consumed) = 3
    /\ \A k \in 1..3 : consumed[k].n = RECORD_SIZE
    /\ NameFields[consumed[1].id] = NameB
    /\ consumed[2].site = "payload"
    /\ NameFields[consumed[3].id] = NameA
    /\ out = <<Listing(NameA)>>
    /\ Len(files) = 1

(***************************************************************************)
(* C17: before and after every step block_index is the number of full      *)
(* records read so far, at header and payload positions alike; it never    *)
(* decreases; a step whose read is short leaves it as it is; and the       *)
(* number in a lone-zero-block line is the number of full records read     *)
(* before the end of the stream.                                           *)
(***************************************************************************)
C17_BlockIndexCountsFullRecords ==
    [][/\ block_index = FullCount(consumed)
       /\ block_index' = FullCount(consumed')
       /\ block_index' >= block_index
       /\ (/\ Len(consumed') = Len(consumed) + 1
           /\ consumed'[Len(consumed')].n # RECORD_SIZE)
          => block_index' = block_index
       /\ \A k \in 1..Len(out') :
              out'[k].k = "lone_zero_block"
                  => out'[k].n = FullCount(consumed')]_vars

\* An entry with one payload record and a zero record were read, then the
\* stream ended: the diagnostic shows 3.
C17_Witness ==
    /\ pc = "done"
    /\ stop = "eof"
    /\ FullCount(consumed) = 3
    /\ consumed[1].site = "header"
    /\ consumed[2].site = "payload"
    /\ consumed[3].id \in ZeroIds
    /\ LinesOf(out, "lone_zero_block") = <<LoneZeroBlock(3)>>

(***************************************************************************)
(* The size of an entry and its record count, on their own: lines 467 and  *)
(* 468 of main applied to the size field of a header, and                  *)
(* size_to_record_count applied to every value of size_t.                  *)
(***************************************************************************)
\* "777777777777": twelve octal digits, which fill a field of twelve bytes.
Octal12Sevens == [k \in 1..12 |-> 55]

\* Headers by their size field: 0, 530, 18, and a size text that runs on
\* into the mtime field and exceeds the range of strtoull.
SizeBlocks ==
    << MkHeader(NameA, Mode644, Octal0, Mtime, REGTYPE, TMAGIC),
       MkHeader(NameA, Mode644, Octal530, Mtime, REGTYPE, TMAGIC),
       MkHeader(NameA, Mode644, Octal18, Mtime, REGTYPE, TMAGIC),
       MkHeader(NameA, Mode644, Octal12Sevens, Octal12Sevens, REGTYPE, TMAGIC) >>

\* Either a header of SizeBlocks (its index in `header`) whose size is to be
\* read, or a size whose records are to be counted.
InitSize ==
    /\ options = [t |-> TRUE, x |-> FALSE, v |-> FALSE, free_arguments |-> <<>>]
    /\ return_code = 0
    /\ block_index = 0
    /\ was_null_block = FALSE
    /\ file_output = 0
    /\ files_found = <<>>
    /\ record_count = 0
    /\ i = 0
    /\ stop = ""
    /\ consumed = <<>>
    /\ out = <<>>
    /\ err = <<>>
    /\ files = <<>>
    /\ \/ /\ pc = "get_size"
          /\ header \in 1..Len(SizeBlocks)
          /\ size = 0
       \/ /\ pc = "count"
          /\ header = 0
          /\ size \in 0..SIZE_MAX

\* size_t size = header_get_size(&header);
GetSize ==
    /\ pc = "get_size"
    /\ size' = header_get_size(SizeBlocks[header])
    /\ pc' = "count"
    /\ UNCHANGED <<options, return_code, block_index, was_null_block,
                   file_output, files_found, header, record_count, i, stop,
                   consumed, out, err, files>>

\* size_t record_count = size_to_record_count(size);
CountRecords ==
    /\ pc = "count"
    /\ record_count' = size_to_record_count(size)
    /\ pc' = "counted"
    /\ UNCHANGED <<options, return_code, block_index, was_null_block,
                   file_output, files_found, header, size, i, stop,
                   consumed, out, err, files>>

NextSize ==
    \/ GetSize
    \/ CountRecords

SpecSize == InitSize /\ [][NextSize]_vars

(***************************************************************************)
(* C18: for every size s of the size type, size_to_record_count(s) is      *)
(* ceil(s / 512), the sizes near the top of the range and the saturated    *)
(* value of an overflowing size text included.                             *)
(***************************************************************************)
C18_RecordCountIsCeil ==
    pc = "counted" => record_count = CeilRecords(size)

(***************************************************************************)
(* The filter on its own: check_file_filter called on the headers of       *)
(* successive valid entries (line 453 of main), among them headers whose   *)
(* name fills the name field.                                              *)
(***************************************************************************)
\* A name of 100 bytes 'n'.
LongName == [k \in 1..NAME_SIZE |-> 110]

\* Valid headers of empty entries: a name that fills its field, followed by
\* the mode "0000644" or by an empty mode field, and the names a and b.
FilterBlocks ==
    << MkHeader(LongName, Mode644, Octal0, Mtime, REGTYPE, TMAGIC),
       MkHeader(LongName, <<>>, Octal0, Mtime, REGTYPE, TMAGIC),
       MkHeader(NameA, Mode644, Octal0, Mtime, REGTYPE, TMAGIC),
       MkHeader(NameB, Mode644, Octal0, Mtime, REGTYPE, TMAGIC) >>

FilterArgumentLists ==
    {<<>>, <<LongName>>, <<NameA>>, <<LongName \o Mode644>>,
     <<NameA, LongName>>, <<LongName, LongName>>,
     <<LongName \o Mode644, LongName>>}

InitFilter ==
    /\ options \in [t : BOOLEAN, x : BOOLEAN, v : BOOLEAN,
                    free_arguments : FilterArgumentLists]
    /\ options.t # options.x
    /\ return_code = 0
    /\ block_index = 0
    /\ was_null_block = FALSE
    /\ file_output = 0
    /\ files_found = make_files_found(options)
    /\ header = 0
    /\ size = 0
    /\ record_count = 0
    /\ i = 0
    /\ pc = "filter"
    /\ stop = ""
    /\ consumed = <<>>
    /\ out = <<>>
    /\ err = <<>>
    /\ files = <<>>

\* The header FilterBlocks[id] was read and is valid:
\* check_file_filter(&options, &header, files_found).
CallCheckFileFilter(id) ==
    LET f == check_file_filter(options, FilterBlocks[id], files_found)
    IN  /\ pc = "filter"
        /\ block_index < MaxBlocks
        /\ block_index' = block_index + 1
        /\ header' = id
        /\ consumed' = Append(consumed, FullRead(id, "header"))
        /\ files_found' = f.found
        /\ out' = out \o f.out
        /\ UNCHANGED <<options, return_code, was_null_block, file_output,
                       size, record_count, i, pc, stop, err, files>>

NextFilter == \E id \in 1..Len(FilterBlocks) : CallCheckFileFilter(id)

SpecFilter == InitFilter /\ [][NextFilter]_vars

\* The name field of each header of FilterBlocks: its bytes before the first
\* NUL, all 100 of them when there is none.
FilterNameFields ==
    [id \in 1..Len(FilterBlocks) |->
        LET h == FilterBlocks[id]
            p == CHOOSE p \in 0..NAME_SIZE :
                     /\ p = NAME_SIZE \/ h[NAME_OFFSET + p + 1] = 0
                     /\ \A q \in 0..(p - 1) : h[NAME_OFFSET + q + 1] # 0
        IN  SubSeq(h, NAME_OFFSET + 1, NAME_OFFSET + p)]

(***************************************************************************)
(* C19: a requested name that equals the name field of an entry passed to  *)
(* the filter, a field of 100 bytes without NUL included and whatever the  *)
(* fields after it hold, has been found (it or an equal name requested     *)
(* before it has its found-bit set); and the listing lines show the name   *)
(* fields: with no requested name, one line per entry in list mode and in  *)
(* extract mode with verbose, and in any case only name fields of entries. *)
(***************************************************************************)
C19_NameComparedWithinField ==
    LET args == options.free_arguments
        names == [k \in 1..Len(consumed) |-> FilterNameFields[consumed[k].id]]
    IN  pc = "filter" =>
            /\ \A e \in 1..Len(names), k \in 1..Len(args) :
                   args[k] = names[e]
                       => \E j \in 1..Len(args) :
                              args[j] = args[k] /\ files_found[j]
            /\ \A l \in 1..Len(out) :
                   \E e \in 1..Len(names) : out[l] = Listing(names[e])
            /\ (args = <<>> /\ (options.t \/ options.v))
                   => out = [e \in 1..Len(names) |-> Listing(names[e])]

(***************************************************************************)
(* The program is sequential: while it has not returned, its next          *)
(* statement is executed.                                                  *)
(***************************************************************************)
FairSpec == Spec /\ WF_vars(Next)

\* A variant of the scan: the full records the stream may still deliver,
\* and the position in the loop.
ScanRank ==
    2 * (MaxBlocks - FullCount(consumed))
        + (CASE pc = "payload" -> 3 [] pc = "header" -> 2 [] pc = "exit" -> 1
           [] OTHER -> 0)

(***************************************************************************)
(* C20: on a stream of finitely many records the run reaches its end in    *)
(* every mode and for every list of names: a step is possible until the    *)
(* run is over, every step decreases a natural number, and the run         *)
(* eventually is over.  A step at a header position that does not leave    *)
(* the scan loop reads one full record.  A short read in the payload loop  *)
(* leaves the loop at once, before the declared count is reached, and      *)
(* nothing is read after it.                                               *)
(***************************************************************************)
C20_ScanTerminates ==
    /\ [](pc = "done" \/ ENABLED Next)
    /\ [][/\ ScanRank' < ScanRank
          /\ ScanRank' >= 0
          /\ (pc = "header" /\ pc' # "exit")
             => FullCount(consumed') = FullCount(consumed) + 1
          /\ (/\ pc = "payload"
              /\ Len(consumed') = Len(consumed) + 1
              /\ consumed'[Len(consumed')].n # RECORD_SIZE)
             => /\ pc' = "exit"
                /\ stop' = "partial_payload"
                /\ i' = i
                /\ i < record_count
          /\ stop = "partial_payload" => consumed' = consumed]_vars
    /\ <>(pc = "done")

\* An entry that declares two payload records: the first was read in full,
\* the second read was short, and the run is over with one of two counted.
C20_Witness ==
    /\ pc = "done"
    /\ stop = "partial_payload"
    /\ record_count = 2
    /\ i = 1
    /\ Len(consumed) = 3
    /\ consumed[2].n = RECORD_SIZE
    /\ consumed[3].n \in PartialLens

=============================================================================
